---- MODULE Spec2Model ----
(***************************************************************************)
(* Model of the static code analyzer of code_analyzer.py: the twelve style *)
(* checks (S001..S012), Analyzer.check (read, run every check, stable sort *)
(* by line number, print) and the module-level driver (directory walk,     *)
(* single file, or neither).                                               *)
(*                                                                         *)
(* Text is modelled as a sequence of one-character strings, so that the    *)
(* regular expressions and the string methods of the source are computed   *)
(* character by character.  The parser (ast.parse) is external: a source   *)
(* file is a pair of its text and of the outcome of parsing that text.     *)
(* Files are assumed readable (open() succeeds).                           *)
(***************************************************************************)
EXTENDS Integers, Sequences, FiniteSets, TLC

\* ------------------------------------------------------------------ bounds
\* the most files a walked directory holds
MaxFiles == 3
\* the most lines of a generated file of blank lines
MaxLines == 5

\* -------------------------------------------------------------- characters
Lower == {"a","b","c","d","e","f","g","h","i","j","k","l","m",
          "n","o","p","q","r","s","t","u","v","w","x","y","z"}
Upper == {"A","B","C","D","E","F","G","H","I","J","K","L","M",
          "N","O","P","Q","R","S","T","U","V","W","X","Y","Z"}
Digit == {"0","1","2","3","4","5","6","7","8","9"}
\* \s of the re module and the characters str.strip() removes
Whitespace == {" ", "\t"}
\* \w of the re module
WordChar == Lower \cup Upper \cup Digit \cup {"_"}

\* ------------------------------------------------------- string primitives
\* s[i:j] of Python with 1-based inclusive bounds
Slice(s, i, j) == [k \in 1..(IF j >= i THEN j - i + 1 ELSE 0) |-> s[i + k - 1]]

AllIn(s, set) == \A k \in 1..Len(s) : s[k] \in set

\* s.startswith(p), p matched at position i (1-based)
MatchAt(s, i, p) == /\ i >= 1
                    /\ i + Len(p) - 1 <= Len(s)
                    /\ \A k \in 1..Len(p) : s[i + k - 1] = p[k]

StartsWith(s, p) == MatchAt(s, 1, p)

EndsWith(s, p) == Len(p) <= Len(s) /\ MatchAt(s, Len(s) - Len(p) + 1, p)

\* number of leading characters of s that belong to set
RECURSIVE LeadingCount(_, _)
LeadingCount(s, set) ==
    IF s = <<>> \/ Head(s) \notin set THEN 0 ELSE 1 + LeadingCount(Tail(s), set)

RECURSIVE TrailingCount(_, _)
TrailingCount(s, set) ==
    IF s = <<>> \/ s[Len(s)] \notin set THEN 0
    ELSE 1 + TrailingCount(Slice(s, 1, Len(s) - 1), set)

\* str.lstrip(chars)
LStrip(s, set) == Slice(s, LeadingCount(s, set) + 1, Len(s))

\* str.strip()
Strip(s) ==
    LET l == LStrip(s, Whitespace)
    IN  Slice(l, 1, Len(l) - TrailingCount(l, Whitespace))

\* position of the first occurrence of character c in s, 0 when absent
RECURSIVE FindChar(_, _, _)
FindChar(s, c, from) ==
    IF from > Len(s) THEN 0
    ELSE IF s[from] = c THEN from ELSE FindChar(s, c, from + 1)

\* str.splitlines(): the text cut at every line break, the breaks dropped,
\* no empty last line after a final break
RECURSIVE SplitLines(_)
SplitLines(text) ==
    LET nl == FindChar(text, "\n", 1)
    IN  IF text = <<>> THEN <<>>
        ELSE IF nl = 0 THEN <<text>>
        ELSE <<Slice(text, 1, nl - 1)>> \o SplitLines(Slice(text, nl + 1, Len(text)))

\* ------------------------------------------------------ naming conventions
\* CAMEL_CASE = '^[A-Z][a-zA-Z]*$' under re.match
CAMEL_CASE(name) ==
    /\ Len(name) >= 1
    /\ name[1] \in Upper
    /\ AllIn(Slice(name, 2, Len(name)), Lower \cup Upper)

\* (_[a-z0-9]+)*$ matched from position i of name
RECURSIVE SnakeGroups(_, _)
SnakeGroups(name, i) ==
    \/ i = Len(name) + 1
    \/ /\ i <= Len(name)
       /\ name[i] = "_"
       /\ \E j \in (i + 1)..Len(name) :
             /\ AllIn(Slice(name, i + 1, j), Lower \cup Digit)
             /\ SnakeGroups(name, j + 1)

\* SNAKE_CASE = '^(_*[a-z]+[a-z_0-9]*|[a-z]+(_[a-z0-9]+)*)$' under re.match
SNAKE_CASE(name) ==
    \/ \E i \in 0..Len(name) : \E j \in (i + 1)..Len(name) :
          /\ AllIn(Slice(name, 1, i), {"_"})
          /\ AllIn(Slice(name, i + 1, j), Lower)
          /\ AllIn(Slice(name, j + 1, Len(name)), Lower \cup Digit \cup {"_"})
    \/ \E j \in 1..Len(name) :
          /\ AllIn(Slice(name, 1, j), Lower)
          /\ SnakeGroups(name, j + 1)

\* -------------------------------------------------------------- violations
NoArg == <<>>

\* Violation.__init__
Violation(src_path, line_no, code, message) ==
    [src_path |-> src_path, line_no |-> line_no, code |-> code, message |-> message]

\* a message: its fixed text and the name an f-string interpolates into it
Msg(text) == [text |-> text, arg |-> NoArg]
MsgWith(text, name) == [text |-> text, arg |-> name]

\* Violation.__str__: "{src_path}: Line {line_no}: {code} {message}"
Str(v) == <<v.src_path, ": Line ", v.line_no, ": ", v.code, " ", v.message>>

\* the fields of a printed line, read back from that layout
PrintedPath(out) == out[1]
PrintedLineNo(out) == out[3]
PrintedCode(out) == out[5]
PrintedMessage(out) == out[7]

\* ------------------------------------------------------------- line checks
\* LengthCheck.check_line
LengthCheck(src_path, line, line_no) ==
    IF Len(line) > 79
    THEN <<Violation(src_path, line_no, "S001", Msg("Too Long"))>>
    ELSE <<>>

\* IndentCheck.check_line
IndentCheck(src_path, line, line_no) ==
    IF (Len(line) - Len(LStrip(line, {" "}))) % 4 # 0
    THEN <<Violation(src_path, line_no, "S002",
                     Msg("Indentation is not a multiple of four"))>>
    ELSE <<>>

\* re.search(r'^[^#]*;\s*(?=#|$)', line)
SemicolonSearch(line) ==
    \E j \in 1..Len(line) :
       /\ line[j] = ";"
       /\ \A k \in 1..(j - 1) : line[k] # "#"
       /\ \E k \in j..Len(line) :
             /\ AllIn(Slice(line, j + 1, k), Whitespace)
             /\ (k = Len(line) \/ line[k + 1] = "#")

\* SemicolonCheck.check_line
SemicolonCheck(src_path, line, line_no) ==
    IF SemicolonSearch(line)
    THEN <<Violation(src_path, line_no, "S003",
                     Msg("Unnecessary semicolon after a statement"))>>
    ELSE <<>>

\* SpacesBeforeCommentCheck.check_line
SpacesBeforeCommentCheck(src_path, line, line_no) ==
    LET hash == FindChar(line, "#", 1)
        code_part == Slice(line, 1, hash - 1)
    IN  IF /\ hash # 0
           /\ ~StartsWith(Strip(line), <<"#">>)
           /\ ~EndsWith(code_part, <<" ", " ">>)
        THEN <<Violation(src_path, line_no, "S004",
                         Msg("Less than two spaces before inline comments"))>>
        ELSE <<>>

\* re.search(r'#.*TODO', line, RegexFlag.IGNORECASE)
TodoSearch(line) ==
    \E i \in 1..Len(line) :
       /\ line[i] = "#"
       /\ \E j \in (i + 1)..(Len(line) - 3) :
             /\ line[j] \in {"t", "T"}
             /\ line[j + 1] \in {"o", "O"}
             /\ line[j + 2] \in {"d", "D"}
             /\ line[j + 3] \in {"o", "O"}

\* TodoCheck.check_line
TodoCheck(src_path, line, line_no) ==
    IF TodoSearch(line)
    THEN <<Violation(src_path, line_no, "S005", Msg("TODO found"))>>
    ELSE <<>>

\* TwoManyBlankLinesCheck.check: idx is 0-based in the source, lines[idx] is
\* lines[idx + 1] here; `line` is true for any non-empty string
TwoManyBlankLinesCheck(src_path, source) ==
    LET lines == SplitLines(source.text)
        acc[n \in 0..Len(lines)] ==
            IF n = 0 THEN <<>>
            ELSE LET idx == n - 1
                 IN  IF /\ idx > 2
                        /\ lines[idx + 1] # <<>>
                        /\ Strip(lines[idx]) = <<>>
                        /\ Strip(lines[idx - 1]) = <<>>
                        /\ Strip(lines[idx - 2]) = <<>>
                     THEN acc[n - 1] \o <<Violation(src_path, idx + 1, "S006",
                              Msg("More than two blank lines preceding a code line"))>>
                     ELSE acc[n - 1]
    IN  acc[Len(lines)]

\* re.search(kw + r'\s\s+.*', s): kw followed by two or more blanks, anywhere
KeywordSpacesSearch(s, kw) ==
    \E i \in 1..Len(s) :
       /\ MatchAt(s, i, kw)
       /\ i + Len(kw) + 1 <= Len(s)
       /\ s[i + Len(kw)] \in Whitespace
       /\ s[i + Len(kw) + 1] \in Whitespace

KwClass == <<"c", "l", "a", "s", "s">>
KwDef == <<"d", "e", "f">>

\* ConstructionSpaceCheck.check_line
ConstructionSpaceCheck(src_path, line, line_no) ==
    LET s == Strip(line)
    IN  IF StartsWith(s, KwClass) /\ KeywordSpacesSearch(s, KwClass)
        THEN <<Violation(src_path, line_no, "S007",
                         Msg("Too many spaces after 'class'"))>>
        ELSE IF StartsWith(s, KwDef) /\ KeywordSpacesSearch(s, KwDef)
        THEN <<Violation(src_path, line_no, "S007",
                         Msg("Too many spaces after 'def'"))>>
        ELSE <<>>

\* kw\s+(\w+)close matched with kw at position i: \s+ and \w+ are greedy and
\* share no character with each other or with close, so they take whole runs
NameMatchAt(line, i, kw, close) ==
    LET after == Slice(line, i + Len(kw), Len(line))
        ws == LeadingCount(after, Whitespace)
        rest == Slice(after, ws + 1, Len(after))
        w == LeadingCount(rest, WordChar)
    IN  /\ MatchAt(line, i, kw)
        /\ ws >= 1
        /\ w >= 1
        /\ w + 1 <= Len(rest)
        /\ rest[w + 1] = close

\* re.search(kw\s+(\w+)close, line): group(1) of the leftmost match, as a
\* sequence of zero (no match) or one name
NameSearch(line, kw, close) ==
    LET hits == {i \in 1..Len(line) : NameMatchAt(line, i, kw, close)}
    IN  IF hits = {} THEN <<>>
        ELSE LET i == CHOOSE h \in hits : \A g \in hits : h <= g
                 after == Slice(line, i + Len(kw), Len(line))
                 rest == LStrip(after, Whitespace)
             IN  <<Slice(rest, 1, LeadingCount(rest, WordChar))>>

\* ClassNameCheck.check_line: re.search(r'class\s+(\w+):', line)
ClassNameCheck(src_path, line, line_no) ==
    LET match == NameSearch(line, KwClass, ":")
    IN  IF match # <<>> /\ ~CAMEL_CASE(match[1])
        THEN <<Violation(src_path, line_no, "S008",
                 MsgWith("Class name '{}' should use CamelCase", match[1]))>>
        ELSE <<>>

\* FunctionNameCheck.check_line: re.search(r'def\s+([\w_]+)\(', line)
FunctionNameCheck(src_path, line, line_no) ==
    LET match == NameSearch(line, KwDef, "(")
    IN  IF match # <<>> /\ ~SNAKE_CASE(match[1])
        THEN <<Violation(src_path, line_no, "S009",
                 MsgWith("Function name '{}' should use snake_case", match[1]))>>
        ELSE <<>>

\* self.check_line of the line check at place i of Analyzer.checks; the result
\* is a sequence holding the violation, or empty for None
check_line(i, src_path, line, line_no) ==
    CASE i = 1 -> LengthCheck(src_path, line, line_no)
      [] i = 2 -> IndentCheck(src_path, line, line_no)
      [] i = 3 -> SemicolonCheck(src_path, line, line_no)
      [] i = 4 -> SpacesBeforeCommentCheck(src_path, line, line_no)
      [] i = 5 -> TodoCheck(src_path, line, line_no)
      [] i = 7 -> ConstructionSpaceCheck(src_path, line, line_no)
      [] i = 8 -> ClassNameCheck(src_path, line, line_no)
      [] i = 9 -> FunctionNameCheck(src_path, line, line_no)

\* LineCheck.check: check_line on every physical line, numbered from 1
LineCheck(i, src_path, source) ==
    LET lines == SplitLines(source.text)
        acc[n \in 0..Len(lines)] ==
            IF n = 0 THEN <<>>
            ELSE acc[n - 1] \o check_line(i, src_path, lines[n], n)
    IN  acc[Len(lines)]

\* ------------------------------------------------------------- syntax tree
\* A node of the tree ast.parse returns.  Only statements are kept (a Module,
\* a FunctionDef, an Assign, ...): check_node ignores every other node, and
\* dropping them leaves the order in which ast.walk yields the rest unchanged.
\* The fields of node.args (an ast.arguments) are flattened into the node.
Node(type, lineno, body) ==
    [type |-> type, lineno |-> lineno, body |-> body, name |-> <<>>,
     posonlyargs |-> <<>>, args |-> <<>>, vararg |-> <<>>, kwonlyargs |-> <<>>,
     kwarg |-> <<>>, defaults |-> <<>>, kw_defaults |-> <<>>, targets |-> <<>>]

Module(body) == Node("Module", 0, body)

\* a FunctionDef whose only parameters are positional, without defaults
FunctionDef(lineno, name, args, body) ==
    [Node("FunctionDef", lineno, body) EXCEPT !.name = name, !.args = args]

ClassDef(lineno, name, body) ==
    [Node("ClassDef", lineno, body) EXCEPT !.name = name]

\* an Assign to one ast.Name target
Assign(lineno, id) ==
    [Node("Assign", lineno, <<>>) EXCEPT !.targets = <<[type |-> "Name", id |-> id]>>]

\* ast.walk: breadth first, a queue of nodes each replaced by its children
RECURSIVE Queue(_)
Queue(todo) ==
    IF todo = <<>> THEN <<>>
    ELSE <<Head(todo)>> \o Queue(Tail(todo) \o Head(todo).body)

walk(tree) == Queue(<<tree>>)

\* ast.parse(source) raises SyntaxError
ParseFails(source) == ~source.parse.ok

\* ArgumentNameCheck.check_node: the violation of the first parameter of
\* node.args.args that is not snake_case, if there is one
ArgumentNameCheck(src_path, node) ==
    IF /\ node.type = "FunctionDef"
       /\ \E a \in 1..Len(node.args) : ~SNAKE_CASE(node.args[a])
    THEN <<Violation(src_path, node.lineno, "S010",
                     Msg("Argument name should use snake_case"))>>
    ELSE <<>>

\* VariableNameCheck.check_node
VariableNameCheck(src_path, node) ==
    IF /\ node.type = "Assign"
       /\ \E t \in 1..Len(node.targets) :
             node.targets[t].type = "Name" /\ ~SNAKE_CASE(node.targets[t].id)
    THEN <<Violation(src_path, node.lineno, "S011",
                     Msg("Variable should be written in snake_case"))>>
    ELSE <<>>

\* the node types of the mutable collection literals
MutableLiterals == {"List", "Dict", "Set"}

\* DefaultMutableCheck.check_node
DefaultMutableCheck(src_path, node) ==
    IF /\ node.type = "FunctionDef"
       /\ \E d \in 1..Len(node.defaults) : node.defaults[d] \in MutableLiterals
    THEN <<Violation(src_path, node.lineno, "S012",
                     Msg("Default argument value is mutable"))>>
    ELSE <<>>

\* self.check_node of the tree check at place i of Analyzer.checks
check_node(i, src_path, node) ==
    CASE i = 10 -> ArgumentNameCheck(src_path, node)
      [] i = 11 -> VariableNameCheck(src_path, node)
      [] i = 12 -> DefaultMutableCheck(src_path, node)

\* AstCheck.check after a successful parse: check_node on every node walked
AstCheck(i, src_path, source) ==
    LET nodes == walk(source.parse.tree)
        acc[n \in 0..Len(nodes)] ==
            IF n = 0 THEN <<>>
            ELSE acc[n - 1] \o check_node(i, src_path, nodes[n])
    IN  acc[Len(nodes)]

\* ---------------------------------------------------------------- Analyzer
\* the codes of Analyzer.checks, in the order of the list
Codes == <<"S001", "S002", "S003", "S004", "S005", "S006",
           "S007", "S008", "S009", "S010", "S011", "S012">>

NumChecks == Len(Codes)

\* whether Analyzer.checks[i] is an AstCheck
IsAstCheck(i) == i \in {10, 11, 12}

\* Analyzer.checks[i].check(src_path, source), when it does not raise
Check(i, src_path, source) ==
    CASE i = 6 -> TwoManyBlankLinesCheck(src_path, source)
      [] IsAstCheck(i) -> AstCheck(i, src_path, source)
      [] OTHER -> LineCheck(i, src_path, source)

\* vs with v put after the last element whose line_no is not greater
RECURSIVE InsertByLineNo(_, _)
InsertByLineNo(vs, v) ==
    IF vs = <<>> THEN <<v>>
    ELSE IF vs[Len(vs)].line_no <= v.line_no THEN Append(vs, v)
    ELSE Append(InsertByLineNo(Slice(vs, 1, Len(vs) - 1), v), vs[Len(vs)])

\* variant: the list is printed as collected
Unsorted(vs) == vs

\* sorted(violations, key=lambda v: v.line_no): a stable sort
sorted_sorted(vs) ==
    LET acc[n \in 0..Len(vs)] ==
            IF n = 0 THEN <<>> ELSE InsertByLineNo(acc[n - 1], vs[n])
    IN  acc[Len(vs)]

\* variant: a later report lands before the earlier ones
PrintedFirst(out, vs) == [k \in 1..Len(vs) |-> Str(vs[k])] \o out

\* for violation in sorted_sorted: print(violation)
Printed(out, vs) == out \o [k \in 1..Len(vs) |-> Str(vs[k])]

\* ------------------------------------------------------------ source files
\* A file on disk: its text and what ast.parse makes of that text
Source(text, tree) == [text |-> text, parse |-> [ok |-> TRUE, tree |-> tree]]
BadSource(text) == [text |-> text, parse |-> [ok |-> FALSE, tree |-> Module(<<>>)]]

\* the text of a file holding these lines, each ended by a line break
RECURSIVE JoinLines(_)
JoinLines(lines) ==
    IF lines = <<>> THEN <<>>
    ELSE Head(lines) \o <<"\n">> \o JoinLines(Tail(lines))

RECURSIVE Repeat(_, _)
Repeat(c, n) == IF n = 0 THEN <<>> ELSE <<c>> \o Repeat(c, n - 1)

Pass(lineno) == Node("Pass", lineno, <<>>)

\* x = 1
CleanFile ==
    Source(JoinLines(<< <<"x", " ", "=", " ", "1">> >>),
           Module(<<Assign(1, <<"x">>)>>))

\* def f(A):
\*     def g(B=[]): pass
\* def H(C):  pass;
\* class  foo: pass
NestedFile ==
    Source(JoinLines(<<
             <<"d", "e", "f", " ", "f", "(", "A", ")", ":">>,
             <<" ", " ", " ", " ", "d", "e", "f", " ", "g", "(", "B", "=", "[", "]",
               ")", ":", " ", "p", "a", "s", "s">>,
             <<"d", "e", "f", " ", "H", "(", "C", ")", ":", " ", " ", "p", "a", "s",
               "s", ";">>,
             <<"c", "l", "a", "s", "s", " ", " ", "f", "o", "o", ":", " ", "p", "a",
               "s", "s">> >>),
           Module(<<
             FunctionDef(1, <<"f">>, << <<"A">> >>,
                 << [FunctionDef(2, <<"g">>, << <<"B">> >>, <<Pass(2)>>)
                        EXCEPT !.defaults = <<"List">>] >>),
             FunctionDef(3, <<"H">>, << <<"C">> >>, <<Pass(3)>>),
             ClassDef(4, <<"f", "o", "o">>, <<Pass(4)>>) >>))

\* x = 1;
\* def f(:
BrokenFile ==
    BadSource(JoinLines(<<
        <<"x", " ", "=", " ", "1", ";">>,
        <<"d", "e", "f", " ", "f", "(", ":">> >>))

\* a comment line of 80 characters, then
\* Bad = 1 # todo
LongFile ==
    Source(JoinLines(<<
             <<"#">> \o Repeat("-", 79),
             <<"B", "a", "d", " ", "=", " ", "1", " ", "#", " ", "t", "o", "d", "o">> >>),
           Module(<<Assign(2, <<"B", "a", "d">>)>>))

SampleFiles == {CleanFile, NestedFile, BrokenFile, LongFile}

\* the sequences over set of length lo..hi
SeqsOf(set, lo, hi) == UNION {[1..n -> set] : n \in lo..hi}

\* parts joined by sep: sep.join(parts)
RECURSIVE Join(_, _)
Join(parts, sep) ==
    IF parts = <<>> THEN <<>>
    ELSE IF Len(parts) = 1 THEN parts[1]
    ELSE parts[1] \o sep \o Join(Tail(parts), sep)

\* Files of blank lines, whitespace-only lines and one-name statements
BlankLinePool == {<<>>, <<" ">>, <<"x">>}

BlankLinesFile(lines) ==
    LET body[n \in 0..Len(lines)] ==
            IF n = 0 THEN <<>>
            ELSE IF lines[n] = <<"x">> THEN Append(body[n - 1], Node("Expr", n, <<>>))
            ELSE body[n - 1]
    IN  Source(JoinLines(lines), Module(body[Len(lines)]))

BlankLinesFiles == {BlankLinesFile(lines) : lines \in SeqsOf(BlankLinePool, 1, MaxLines)}

\* Files of one function definition, `def f(<parameters>): pass`, written out
\* from its parameters.  Each of posonly, vararg, kwonly, kwarg holds zero or
\* one name; defaults belong to the last Len(defaults) names of args;
\* kw_default holds the default of the keyword-only parameter, if any.
DefaultText(kind) ==
    CASE kind = "Constant" -> <<"N", "o", "n", "e">>
      [] kind = "List" -> <<"[", "]">>
      [] kind = "Dict" -> <<"{", "}">>
      [] kind = "Set" -> <<"{", "1", "}">>

DefLine(posonly, args, defaults, vararg, kwonly, kw_default, kwarg) ==
    LET first == Len(args) - Len(defaults)
        arg_parts == [k \in 1..Len(args) |->
                        IF k > first
                        THEN args[k] \o <<"=">> \o DefaultText(defaults[k - first])
                        ELSE args[k]]
        kw_parts == [k \in 1..Len(kwonly) |->
                        IF kw_default # <<>>
                        THEN kwonly[k] \o <<"=">> \o DefaultText(kw_default[1])
                        ELSE kwonly[k]]
        parts == (IF posonly # <<>> THEN posonly \o << <<"/">> >> ELSE <<>>)
                 \o arg_parts
                 \o (IF vararg # <<>> THEN << <<"*">> \o vararg[1] >>
                     ELSE IF kwonly # <<>> THEN << <<"*">> >> ELSE <<>>)
                 \o kw_parts
                 \o (IF kwarg # <<>> THEN << <<"*", "*">> \o kwarg[1] >> ELSE <<>>)
    IN  <<"d", "e", "f", " ", "f", "(">> \o Join(parts, <<",", " ">>)
           \o <<")", ":", " ", "p", "a", "s", "s">>

DefFile(posonly, args, defaults, vararg, kwonly, kw_default, kwarg) ==
    Source(JoinLines(<<DefLine(posonly, args, defaults, vararg, kwonly, kw_default, kwarg)>>),
           Module(<<[Node("FunctionDef", 1, <<Pass(1)>>) EXCEPT
                       !.name = <<"f">>,
                       !.posonlyargs = posonly,
                       !.args = args,
                       !.defaults = defaults,
                       !.vararg = vararg,
                       !.kwonlyargs = kwonly,
                       !.kw_defaults = IF kwonly = <<>> THEN <<>>
                                       ELSE IF kw_default = <<>> THEN <<"None">>
                                       ELSE kw_default,
                       !.kwarg = kwarg]>>))

\* no name, a snake_case name, or a name that is not snake_case
Opt(good, bad) == {<<>>, <<good>>, <<bad>>}

\* every mix of parameter kinds and names, without defaults
NamedDefFiles ==
    {DefFile(posonly, arg1 \o arg2, <<>>, vararg, kwonly, <<>>, kwarg) :
        posonly \in Opt(<<"p">>, <<"P">>),
        arg1 \in Opt(<<"a">>, <<"m", "y", "A", "r", "g">>),
        arg2 \in Opt(<<"b">>, <<"B">>),
        vararg \in Opt(<<"v">>, <<"V">>),
        kwonly \in Opt(<<"k">>, <<"K">>),
        kwarg \in Opt(<<"w">>, <<"W">>)}

DefaultKinds == {"Constant", "List", "Dict", "Set"}

\* f(a, b) and f(a, b, *, k) with every mix of defaults
DefaultDefFiles ==
    {DefFile(<<>>, << <<"a">>, <<"b">> >>, defaults, <<>>, kwonly, kw_default, <<>>) :
        defaults \in SeqsOf(DefaultKinds, 0, 2),
        kwonly \in {<<>>, << <<"k">> >>},
        kw_default \in SeqsOf(DefaultKinds, 0, 1)}
    \ {DefFile(<<>>, << <<"a">>, <<"b">> >>, defaults, <<>>, <<>>, kw_default, <<>>) :
        defaults \in SeqsOf(DefaultKinds, 0, 2),
        kw_default \in SeqsOf(DefaultKinds, 1, 1)}

\* Files of one class definition, `class <name><bases>: pass`
ClassNames == {<<"f", "o", "o", "B", "a", "r">>, <<"F", "o", "o", "B", "a", "r">>,
               <<"f", "o", "o", "_", "b", "a", "r">>, <<"F", "o", "o", "1">>}

ClassBases == {<<>>, <<"(", ")">>, <<"(", "B", "a", "s", "e", ")">>, <<" ">>}

ClassFile(gap, name, bases) ==
    Source(JoinLines(<< <<"c", "l", "a", "s", "s">> \o gap \o name \o bases
                        \o <<":", " ", "p", "a", "s", "s">> >>),
           Module(<<ClassDef(1, name, <<Pass(1)>>)>>))

ClassFiles ==
    {ClassFile(gap, name, bases) :
        gap \in {<<" ">>, <<" ", " ">>}, name \in ClassNames, bases \in ClassBases}

GeneratedFiles == BlankLinesFiles \cup NamedDefFiles \cup DefaultDefFiles \cup ClassFiles

\* ------------------------------------------------------------------- state
VARIABLES
    path_kind,   \* what path_arg names: "dir", "file" or "none"
    disk,        \* the files in the order the walk yields them (path k is disk[k])
    pc,          \* the driver's position
    cur,         \* the index of the file being processed
    analyzer,    \* the Analyzer in use: its src_path (0: none yet)
    source,      \* Analyzer.check: the text read
    violations,  \* Analyzer.check: the list collected so far
    check_idx,   \* Analyzer.check: the index of the next check of self.checks
    stdout,      \* the lines printed so far
    created,     \* history: the src_path of every Analyzer constructed
    opened       \* history: the path of every file opened

vars == <<path_kind, disk, pc, cur, analyzer, source, violations, check_idx,
          stdout, created, opened>>

NoSource == BadSource(<<>>)

\* the state of the process before the driver runs, on a given path argument
Boot(kind, files) ==
    /\ path_kind = kind
    /\ disk = files
    /\ pc = "start"
    /\ cur = 0
    /\ analyzer = 0
    /\ source = NoSource
    /\ violations = <<>>
    /\ check_idx = 0
    /\ stdout = <<>>
    /\ created = <<>>
    /\ opened = <<>>

\* path_arg is a directory of sample files, one sample file, or nothing
InitSamples ==
    \/ \E files \in SeqsOf(SampleFiles, 0, MaxFiles) : Boot("dir", files)
    \/ \E f \in SampleFiles : Boot("file", <<f>>)
    \/ Boot("none", <<>>)

\* path_arg is one generated file
InitGenerated == \E f \in GeneratedFiles : Boot("file", <<f>>)

Init == InitSamples \/ InitGenerated

\* ------------------------------------------------------------------ driver
\* variant: whatever is not a directory is taken for a file
DispatchAnyPath(kind) == IF kind = "dir" THEN "walk" ELSE "single"

\* if os.path.isdir(path_arg) ... elif os.path.isfile(path_arg) ...
Dispatch(kind) ==
    CASE kind = "dir" -> "walk"
      [] kind = "file" -> "single"
      [] OTHER -> "done"

Start ==
    /\ pc = "start"
    /\ pc' = Dispatch(path_kind)
    /\ UNCHANGED <<path_kind, disk, cur, analyzer, source, violations, check_idx,
                   stdout, created, opened>>

\* for name in files: path = ...; analyzer = Analyzer(path)
WalkNext ==
    /\ pc = "walk"
    /\ cur < Len(disk)
    /\ cur' = cur + 1
    /\ analyzer' = cur + 1
    /\ created' = Append(created, cur + 1)
    /\ pc' = "check"
    /\ UNCHANGED <<path_kind, disk, source, violations, check_idx, stdout, opened>>

\* the walk is exhausted
WalkEnd ==
    /\ pc = "walk"
    /\ cur = Len(disk)
    /\ pc' = "done"
    /\ UNCHANGED <<path_kind, disk, cur, analyzer, source, violations, check_idx,
                   stdout, created, opened>>

\* analyzer = Analyzer(path_arg)
SingleFile ==
    /\ pc = "single"
    /\ cur' = 1
    /\ analyzer' = 1
    /\ created' = Append(created, 1)
    /\ pc' = "check"
    /\ UNCHANGED <<path_kind, disk, source, violations, check_idx, stdout, opened>>

\* ---------------------------------------------------------- Analyzer.check
\* variant: one list shared by every call of check
KeptViolations == violations

\* violations: [Violation] = []
NewViolations == <<>>

\* violations = []; with open(self.src_path, 'r') as file: source = file.read()
\* (open raises when the path names no file)
Open ==
    /\ pc = "check"
    /\ IF analyzer \in 1..Len(disk)
       THEN /\ violations' = NewViolations
            /\ source' = disk[analyzer]
            /\ opened' = Append(opened, analyzer)
            /\ check_idx' = 1
            /\ pc' = "checks"
       ELSE /\ pc' = "error"
            /\ violations' = NewViolations
            /\ UNCHANGED <<source, opened, check_idx>>
    /\ UNCHANGED <<path_kind, disk, cur, analyzer, stdout, created>>

\* one round of `for check in self.checks`: a line check, or a tree check
\* whose parse succeeds; its violations are appended in the order it found them
RunCheck ==
    /\ pc = "checks"
    /\ check_idx <= NumChecks
    /\ ~(IsAstCheck(check_idx) /\ ParseFails(source))
    /\ violations' = violations \o Check(check_idx, analyzer, source)
    /\ check_idx' = check_idx + 1
    /\ UNCHANGED <<path_kind, disk, pc, cur, analyzer, source, stdout, created, opened>>

\* variant: the violations collected so far are printed before the error leaves
RaiseAfterReport ==
    /\ pc = "checks"
    /\ check_idx <= NumChecks
    /\ IsAstCheck(check_idx) /\ ParseFails(source)
    /\ stdout' = Printed(stdout, sorted_sorted(violations))
    /\ pc' = "error"
    /\ UNCHANGED <<path_kind, disk, cur, analyzer, source, violations, check_idx,
                   created, opened>>

\* variant: the driver catches the error and goes on with the next file
SkipUnparsable ==
    /\ pc = "checks"
    /\ check_idx <= NumChecks
    /\ IsAstCheck(check_idx) /\ ParseFails(source)
    /\ pc' = IF path_kind = "dir" THEN "walk" ELSE "done"
    /\ UNCHANGED <<path_kind, disk, cur, analyzer, source, violations, check_idx,
                   stdout, created, opened>>

\* a tree check whose ast.parse raises: nothing catches the error, neither in
\* Analyzer.check nor in the driver, and the process ends
RaiseSyntaxError ==
    /\ pc = "checks"
    /\ check_idx <= NumChecks
    /\ IsAstCheck(check_idx) /\ ParseFails(source)
    /\ pc' = "error"
    /\ UNCHANGED <<path_kind, disk, cur, analyzer, source, violations, check_idx,
                   stdout, created, opened>>

\* sorted_sorted = sorted(...); for violation in sorted_sorted: print(violation);
\* then back to the driver: the next file of the walk, or the end
Report ==
    /\ pc = "checks"
    /\ check_idx = NumChecks + 1
    /\ stdout' = Printed(stdout, sorted_sorted(violations))
    /\ pc' = IF path_kind = "dir" THEN "walk" ELSE "done"
    /\ UNCHANGED <<path_kind, disk, cur, analyzer, source, violations, check_idx,
                   created, opened>>

Next ==
    \/ Start
    \/ WalkNext
    \/ WalkEnd
    \/ SingleFile
    \/ Open
    \/ RunCheck
    \/ RaiseSyntaxError
    \/ Report

Spec == Init /\ [][Next]_vars

\* ------------------------------------------------------ reading the state
\* the place of a code in the order of Analyzer.checks
CodeIndex(code) == CHOOSE i \in 1..NumChecks : Codes[i] = code

\* the printed lines of the file at path k, in print order
Group(k) ==
    LET Mine(out) == PrintedPath(out) = k
    IN  SelectSeq(stdout, Mine)

\* a printed line without its path
Anonymous(out) == <<PrintedLineNo(out), PrintedCode(out), PrintedMessage(out)>>

AnonymousGroup(k) == [i \in 1..Len(Group(k)) |-> Anonymous(Group(k)[i])]

\* Analyzer.check has returned for the file at path k
Reported(k) ==
    /\ k \in 1..Len(disk)
    /\ \E i \in 1..Len(opened) : opened[i] = k
    /\ (k < cur \/ pc \in {"walk", "done"})

\* what the twelve checks yield on one file taken alone, and its report
AllViolations(k) ==
    LET acc[i \in 0..NumChecks] ==
            IF i = 0 THEN <<>> ELSE acc[i - 1] \o Check(i, k, disk[k])
    IN  acc[NumChecks]

FullReport(k) == Printed(<<>>, sorted_sorted(AllViolations(k)))

\* the reports of the files at paths 1..k, one after the other
RECURSIVE ReportsUpTo(_)
ReportsUpTo(k) == IF k = 0 THEN <<>> ELSE ReportsUpTo(k - 1) \o FullReport(k)

\* the paths of the files whose source does not parse
Unparsable == {k \in 1..Len(disk) : ~disk[k].parse.ok}

\* how many times path k occurs in a history
Count(history, k) == Cardinality({i \in 1..Len(history) : history[i] = k})

\* the process has ended, normally or by an uncaught error
Ended == pc \in {"done", "error"}

\* the violations of one code collected at one line by the running check()
Collected(code, line_no) ==
    {i \in 1..Len(violations) :
        violations[i].code = code /\ violations[i].line_no = line_no}

\* Analyzer.checks[i] has run on the current file
HasRun(i) == pc = "checks" /\ check_idx > i

Blank(line) == Strip(line) = <<>>

\* the nodes of the parsed tree of the current file
Nodes == walk(source.parse.tree)

\* ------------------------------------------------------------------ claims
\* C1: the violations printed for a file are in non-decreasing line_no order,
\* and two printed violations of the same file and line appear in the order
\* of their checks in Analyzer.checks (S001, S002, ..., S012).
C1_SortedStable ==
    \A i \in 1..Len(stdout) : \A j \in (i + 1)..Len(stdout) :
        PrintedPath(stdout[i]) = PrintedPath(stdout[j]) =>
            /\ PrintedLineNo(stdout[i]) <= PrintedLineNo(stdout[j])
            /\ PrintedLineNo(stdout[i]) = PrintedLineNo(stdout[j]) =>
                   CodeIndex(PrintedCode(stdout[i])) <= CodeIndex(PrintedCode(stdout[j]))

\* a report whose list had to be reordered and that holds two violations of
\* different checks on one line
C1_Witness ==
    /\ Reported(cur)
    /\ violations # sorted_sorted(violations)
    /\ \E i \in 1..Len(stdout) : \E j \in (i + 1)..Len(stdout) :
          /\ PrintedPath(stdout[i]) = cur /\ PrintedPath(stdout[j]) = cur
          /\ PrintedLineNo(stdout[i]) = PrintedLineNo(stdout[j])
          /\ PrintedCode(stdout[i]) # PrintedCode(stdout[j])

\* C2: when the source of a file does not parse, check() never returns for it
\* (it stops at the first tree check, the error leaving the process) and no
\* violation of that file is ever printed, the collected ones included.
C2_NoPartialReport ==
    \A k \in Unparsable :
        /\ Group(k) = <<>>
        /\ ~Reported(k)
        /\ (analyzer = k /\ pc = "checks") => check_idx <= 10
        /\ (analyzer = k /\ check_idx = 10) => pc \in {"checks", "error"}

\* the error has left check() while violations of the line checks were held
C2_Witness ==
    /\ pc = "error"
    /\ cur \in Unparsable
    /\ violations # <<>>
    /\ \A i \in 1..Len(violations) : violations[i].src_path = cur
    /\ Group(cur) = <<>>

\* C3: in a directory run no file after the first unparsable one is given an
\* Analyzer, opened or reported, and when the error ends the run the output is
\* exactly the full reports of the files before it, in order.
C3_AbortsRun ==
    /\ \A k \in Unparsable : \A j \in (k + 1)..Len(disk) :
          /\ Count(created, j) = 0
          /\ Count(opened, j) = 0
          /\ Group(j) = <<>>
    /\ (pc = "error" /\ path_kind = "dir") => stdout = ReportsUpTo(cur - 1)

\* a run ended by an unparsable file, with output before it and a file after it
C3_Witness ==
    /\ pc = "error"
    /\ path_kind = "dir"
    /\ cur \in Unparsable
    /\ cur < Len(disk)
    /\ stdout # <<>>

\* C5: the printed lines are grouped by file in discovery order (a line of a
\* file never comes before a line of a file discovered earlier), nothing of a
\* file not yet reached is printed, and inside a group the line numbers are
\* non-decreasing.
C5_GroupedByFile ==
    /\ \A i \in 1..Len(stdout) : \A j \in (i + 1)..Len(stdout) :
          /\ PrintedPath(stdout[i]) <= PrintedPath(stdout[j])
          /\ PrintedPath(stdout[i]) = PrintedPath(stdout[j]) =>
                 PrintedLineNo(stdout[i]) <= PrintedLineNo(stdout[j])
    /\ \A i \in 1..Len(stdout) : PrintedPath(stdout[i]) \in 1..cur

\* two files of one directory, both with output, the later with several lines
C5_Witness ==
    /\ path_kind = "dir"
    /\ pc = "done"
    /\ \E a \in 1..Len(disk) : \E b \in (a + 1)..Len(disk) :
          /\ Group(a) # <<>>
          /\ Len(Group(b)) >= 2
          /\ PrintedLineNo(Group(b)[1]) < PrintedLineNo(Group(b)[Len(Group(b))])

\* C6: two reported files with the same content have the same report, path
\* aside, and the report of a file is what the checks yield on that file
\* alone, whatever was analyzed before it.
C6_NoStateAcrossRuns ==
    /\ \A a \in 1..Len(disk) : \A b \in 1..Len(disk) :
          (Reported(a) /\ Reported(b) /\ disk[a] = disk[b]) =>
              AnonymousGroup(a) = AnonymousGroup(b)
    /\ \A k \in 1..Len(disk) : Reported(k) => Group(k) = FullReport(k)

\* the same content reported twice in one run, with output
C6_Witness ==
    \E a \in 1..Len(disk) : \E b \in (a + 1)..Len(disk) :
        /\ Reported(a) /\ Reported(b)
        /\ disk[a] = disk[b]
        /\ Group(b) # <<>>

\* C10 as stated: nothing happens for a path that is neither a directory nor a
\* file; once the run has ended an Analyzer was made exactly once for a single
\* file, and exactly once for every file of a directory.
C10_OncePerFile ==
    /\ path_kind = "none" =>
          created = <<>> /\ opened = <<>> /\ stdout = <<>> /\ pc # "error"
    /\ (Ended /\ path_kind = "file") => created = <<1>>
    /\ (Ended /\ path_kind = "dir") =>
          \A k \in 1..Len(disk) : Count(created, k) = 1

\* C10 amended: as above, but in a directory run that an error ends the
\* Analyzers made are those of the files up to the failing one, once each, and
\* none for the files after it.
C10_OncePerFileReached ==
    /\ path_kind = "none" =>
          created = <<>> /\ opened = <<>> /\ stdout = <<>> /\ pc # "error"
    /\ (Ended /\ path_kind = "file") => created = <<1>>
    /\ (pc = "done" /\ path_kind = "dir") => created = [k \in 1..Len(disk) |-> k]
    /\ (pc = "error" /\ path_kind = "dir") => created = [k \in 1..cur |-> k]
    /\ \A k \in 1..Len(disk) : Count(created, k) <= 1

\* a directory run that an error ended with files left: every file up to the
\* failing one got its Analyzer, the files after it none
C10_Witness ==
    /\ path_kind = "dir"
    /\ pc = "error"
    /\ 1 < cur /\ cur < Len(disk)
    /\ Len(created) = cur

\* C4: S006 is collected at line n exactly when n has three lines before it,
\* line n is not blank and lines n-1, n-2, n-3 are blank (empty or only
\* whitespace).
C4_BlankLines ==
    HasRun(6) =>
        LET lines == SplitLines(source.text)
        IN  \A n \in 1..Len(lines) :
               Cardinality(Collected("S006", n)) =
                   IF /\ n > 3
                      /\ ~Blank(lines[n])
                      /\ Blank(lines[n - 1]) /\ Blank(lines[n - 2]) /\ Blank(lines[n - 3])
                   THEN 1 ELSE 0

\* every parameter name of a function definition, of any kind
AllParameters(node) ==
    node.posonlyargs \o node.args \o node.vararg \o node.kwonlyargs \o node.kwarg

\* C7: for every function definition S010 is collected once at its line if
\* some parameter name, of any kind, is not snake_case, and not at all
\* otherwise.
C7_ArgumentNames ==
    (HasRun(10) /\ source.parse.ok) =>
        \A n \in 1..Len(Nodes) :
            Nodes[n].type = "FunctionDef" =>
                Cardinality(Collected("S010", Nodes[n].lineno)) =
                    IF \E a \in 1..Len(AllParameters(Nodes[n])) :
                          ~SNAKE_CASE(AllParameters(Nodes[n])[a])
                    THEN 1 ELSE 0

\* C8: for every function definition S012 is collected once at its line if a
\* default of a positional or keyword-only parameter is a list, dict or set
\* literal, and not at all otherwise.
C8_MutableDefaults ==
    (HasRun(12) /\ source.parse.ok) =>
        \A n \in 1..Len(Nodes) :
            Nodes[n].type = "FunctionDef" =>
                Cardinality(Collected("S012", Nodes[n].lineno)) =
                    IF \E d \in 1..Len(Nodes[n].defaults \o Nodes[n].kw_defaults) :
                          (Nodes[n].defaults \o Nodes[n].kw_defaults)[d] \in MutableLiterals
                    THEN 1 ELSE 0

\* C9: for every class definition, with or without a list of bases, S008 is
\* collected at its line exactly when its name is not CamelCase, and the
\* message then carries that name.
C9_ClassNames ==
    (HasRun(8) /\ source.parse.ok) =>
        \A n \in 1..Len(Nodes) :
            Nodes[n].type = "ClassDef" =>
                /\ (Collected("S008", Nodes[n].lineno) # {}) <=> ~CAMEL_CASE(Nodes[n].name)
                /\ \A i \in Collected("S008", Nodes[n].lineno) :
                      violations[i].message.arg = Nodes[n].name

====
